---------------------------- MODULE Spec2Model ----------------------------
(***************************************************************************)
(* Model of the document scanner: scanner.py (corner ordering, perspective *)
(* rectification, enhancement, border, the two pipeline entry points) and  *)
(* the request handlers of server.py that call it.                         *)
(*                                                                         *)
(* Five specifications share the module:                                   *)
(*   SpecTransform  order_points / four_point_transform on bounded quads   *)
(*   SpecBorder     add_white_border on small images kept pixel by pixel   *)
(*   SpecEnhance    the brightness/contrast remap of enhance_document      *)
(*   SpecPipeline   process_document / process_document_from_array         *)
(*   Spec           the Flask handlers of server.py                        *)
(*                                                                         *)
(* An image is a record [kind, w, h, ch, px].  A "raster" image keeps px   *)
(* as a function from pixel coordinates <<x, y>> to a colour; an image too *)
(* large for that (anything the rectifier produces is at least 100x100) is *)
(* "symbolic": px is a term recording how the content was produced.        *)
(***************************************************************************)
EXTENDS Integers, Sequences, FiniteSets, TLC

VARIABLES
    \* ---- SpecTransform
    t_image,        \* image argument of four_point_transform
    t_pts,          \* pts argument: a sequence of points <<x, y>>
    t_rect,         \* order_points(pts), or <<>> before the call
    t_rect2,        \* order_points(order_points(pts)), or <<>>
    t_warped,       \* result of four_point_transform, or None
    t_bordered,     \* add_white_border(warped) with the default padding
    \* ---- SpecBorder
    b_image,        \* raster image
    b_padding,      \* padding argument
    b_result,       \* result of add_white_border, or None
    \* ---- SpecEnhance
    e_value,        \* a channel value of the equalized image (0..255)
    e_brightness,
    e_contrast,
    e_result,       \* the channel value enhance_document returns, -1 before
    \* ---- Spec: the file system and the registry of server.py
    input_files,    \* names of the files in UPLOAD_FOLDER
    output_files,   \* paths of the files in OUTPUT_FOLDER
    scanned_images, \* scan id -> registry entry, None where there is none
    clock,          \* datetime.now(), in whole seconds
    \* ---- Spec: the call in progress
    pc,             \* where the call stands
    caller,         \* scan_document, process_document, process_document_from_array
    args,           \* its arguments
    decoded,        \* the local variable image: the decoded source image
    warped,         \* the local variable warped / scanned
    stages,         \* the pipeline stages that ran, in order
    output_path,    \* the path scan_document computed for its output
    result,         \* what the call returned, raised or answered
    effects         \* what the call wrote: "file", "registry"

tvars == <<t_image, t_pts, t_rect, t_rect2, t_warped, t_bordered>>
bvars == <<b_image, b_padding, b_result>>
evars == <<e_value, e_brightness, e_contrast, e_result>>
svars == <<input_files, output_files, scanned_images, clock>>
cvars == <<pc, caller, args, decoded, warped, stages, output_path, result, effects>>
mvars == <<svars, cvars>>
vars == <<tvars, bvars, evars, mvars>>

\* Python's None, and "not set yet" for a result.
None == [none |-> TRUE]

\* Exceptions, as values a call returns instead of an image.
CvError == [error |-> "cv2.error"]
AxisError == [error |-> "numpy.AxisError"]
ValueError == [error |-> "ValueError"]
IsError(r) == r \in {CvError, AxisError, ValueError}

---------------------------------------------------------------------------
(* Bounds of the model *)

\* Grid quads take their coordinates from {0, GridStep, ..., MaxGridK*GridStep}.
GridStep == 75
MaxGridK == 2

\* The clock runs from 0 to MaxClock seconds; scan ids are 1 .. MaxScanIds.
MaxClock == 1
MaxScanIds == 2

\* Raster images are 1..MaxSide pixels wide and high.
MaxSide == 2

\* add_white_border is tried with paddings -MaxPadding .. MaxPadding.
MaxPadding == 2

\* Channel values and adjustments are sampled at these steps.
ValueStep == 5
AdjustStep == 25

---------------------------------------------------------------------------
(* Program constants *)

MinDimension == 100      \* max(maxWidth, 100), max(maxHeight, 100)
DefaultPadding == 20     \* add_white_border(image, padding=20)
MaxAdjust == 100         \* brightness, contrast: -100 to 100
MaxChannel == 255        \* 8-bit channels: convertScaleAbs saturates to uint8

White == <<255, 255, 255>>

---------------------------------------------------------------------------
(* Arithmetic helpers *)

Max(a, b) == IF a >= b THEN a ELSE b
Min(a, b) == IF a <= b THEN a ELSE b
Abs(a) == IF a < 0 THEN -a ELSE a

RECURSIVE IsqrtBetween(_, _, _)
\* The largest r in lo..hi with r*r <= n (lo*lo <= n < (hi+1)*(hi+1));
\* mid <= n \div mid is mid*mid <= n without the large product.
IsqrtBetween(n, lo, hi) ==
    IF lo >= hi THEN lo
    ELSE LET mid == (lo + hi + 1) \div 2
         IN  IF mid <= n \div mid THEN IsqrtBetween(n, mid, hi)
                               ELSE IsqrtBetween(n, lo, mid - 1)

\* int(np.sqrt(n)) for an integer n >= 0: the square root truncated.  The
\* float32 square root is exact enough for the truncation to be the integer
\* square root while n < 2^24, which the model's coordinates stay below.
Isqrt(n) == IsqrtBetween(n, 0, n)

\* (a[0] - b[0]) ** 2 + (a[1] - b[1]) ** 2
SqDist(a, b) == (a[1] - b[1]) * (a[1] - b[1]) + (a[2] - b[2]) * (a[2] - b[2])

\* np.argmin / np.argmax: the first index holding the extreme value.
ArgMin(f) ==
    CHOOSE i \in DOMAIN f :
        /\ \A j \in DOMAIN f : f[i] <= f[j]
        /\ \A j \in DOMAIN f : j < i => f[j] > f[i]

ArgMax(f) ==
    CHOOSE i \in DOMAIN f :
        /\ \A j \in DOMAIN f : f[i] >= f[j]
        /\ \A j \in DOMAIN f : j < i => f[j] < f[i]

---------------------------------------------------------------------------
(* scanner.py: order_points *)

\* pts.sum(axis=1) raises AxisError on an empty list (the array has no second
\* axis); np.argmin(np.diff(pts, axis=1)) raises ValueError on rows of fewer
\* than two coordinates (the difference is empty).  A list of any length of
\* well-formed points is accepted.
order_points_raises(pts) ==
    Len(pts) = 0 \/ \E i \in DOMAIN pts : Len(pts[i]) < 2

order_points_error(pts) == IF Len(pts) = 0 THEN AxisError ELSE ValueError

\* rect = (top-left, top-right, bottom-right, bottom-left), for a list that
\* order_points accepts.
order_points(pts) ==
    LET s == [i \in DOMAIN pts |-> pts[i][1] + pts[i][2]]
        diff == [i \in DOMAIN pts |-> pts[i][2] - pts[i][1]]
    IN  <<pts[ArgMin(s)], pts[ArgMin(diff)], pts[ArgMax(s)], pts[ArgMax(diff)]>>

---------------------------------------------------------------------------
(* scanner.py: four_point_transform *)

\* The content of a warped image: cv2.warpPerspective of the source content
\* through the transform that maps rect onto the W x H rectangle.
WarpedPx(image, rect, W, H) == <<"warpPerspective", image.px, rect, W, H>>

\* four_point_transform without the 100-pixel floor.
four_point_transform_no_floor(image, pts) ==
    IF order_points_raises(pts) THEN order_points_error(pts)
    ELSE LET rect == order_points(pts)
         IN  LET tl == rect[1]
                 tr == rect[2]
                 br == rect[3]
                 bl == rect[4]
                 maxWidth == Max(Isqrt(SqDist(br, bl)), Isqrt(SqDist(tr, tl)))
                 maxHeight == Max(Isqrt(SqDist(tr, br)), Isqrt(SqDist(tl, bl)))
             IN  IF image = None THEN CvError
                 ELSE [kind |-> "symbolic", w |-> maxWidth, h |-> maxHeight,
                       ch |-> image.ch,
                       px |-> WarpedPx(image, rect, maxWidth, maxHeight)]

\* four_point_transform measuring only the bottom and the left edge.
four_point_transform_one_edge(image, pts) ==
    IF order_points_raises(pts) THEN order_points_error(pts)
    ELSE LET rect == order_points(pts)
         IN  LET br == rect[3]
                 bl == rect[4]
                 tl == rect[1]
                 maxWidth == Max(Isqrt(SqDist(br, bl)), MinDimension)
                 maxHeight == Max(Isqrt(SqDist(tl, bl)), MinDimension)
             IN  IF image = None THEN CvError
                 ELSE [kind |-> "symbolic", w |-> maxWidth, h |-> maxHeight,
                       ch |-> image.ch,
                       px |-> WarpedPx(image, rect, maxWidth, maxHeight)]

\* The rows of rect are unpacked whatever the length of pts was; the sizes are
\* the truncated edge lengths, floored at 100; cv2.warpPerspective raises on a
\* missing image and otherwise returns a maxWidth x maxHeight image.
four_point_transform(image, pts) ==
    IF order_points_raises(pts) THEN order_points_error(pts)
    ELSE LET rect == order_points(pts)
         IN  LET tl == rect[1]
                 tr == rect[2]
                 br == rect[3]
                 bl == rect[4]
                 widthA == Isqrt(SqDist(br, bl))
                 widthB == Isqrt(SqDist(tr, tl))
                 heightA == Isqrt(SqDist(tr, br))
                 heightB == Isqrt(SqDist(tl, bl))
                 maxWidth == Max(Max(widthA, widthB), MinDimension)
                 maxHeight == Max(Max(heightA, heightB), MinDimension)
             IN  IF image = None THEN CvError
                 ELSE [kind |-> "symbolic", w |-> maxWidth, h |-> maxHeight,
                       ch |-> image.ch,
                       px |-> WarpedPx(image, rect, maxWidth, maxHeight)]

---------------------------------------------------------------------------
(* scanner.py: add_white_border *)

Pixels(w, h) == (0 .. w - 1) \X (0 .. h - 1)

\* cv2.copyMakeBorder(src, p, p, p, p, BORDER_CONSTANT, value): the source is
\* copied to offset (left, top) = (p, p), everything else is value.
BorderPx(image, padding, value) ==
    IF image.kind = "raster"
    THEN [q \in Pixels(image.w + 2 * padding, image.h + 2 * padding) |->
            IF /\ q[1] >= padding /\ q[1] < padding + image.w
               /\ q[2] >= padding /\ q[2] < padding + image.h
            THEN image.px[<<q[1] - padding, q[2] - padding>>]
            ELSE value]
    ELSE <<"copyMakeBorder", image.px, padding, value>>

\* add_white_border that accepts a negative padding as no padding.
add_white_border_unchecked(image, padding) ==
    LET p == Max(padding, 0)
    IN  [kind |-> image.kind, w |-> image.w + 2 * p, h |-> image.h + 2 * p,
         ch |-> image.ch, px |-> BorderPx(image, p, White)]

\* add_white_border that copies the source to the corner, not the centre.
add_white_border_corner(image, padding) ==
    IF padding < 0 THEN CvError
    ELSE [kind |-> image.kind, w |-> image.w + 2 * padding,
          h |-> image.h + 2 * padding, ch |-> image.ch,
          px |-> IF image.kind = "raster"
                 THEN [q \in Pixels(image.w + 2 * padding, image.h + 2 * padding) |->
                         IF q[1] < image.w /\ q[2] < image.h
                         THEN image.px[q] ELSE White]
                 ELSE <<"copyMakeBorder", image.px, 0, White>>]

\* cv2.copyMakeBorder asserts top, bottom, left, right >= 0 and raises
\* cv2.error otherwise.
add_white_border(image, padding) ==
    IF padding < 0 THEN CvError
    ELSE [kind |-> image.kind, w |-> image.w + 2 * padding,
          h |-> image.h + 2 * padding, ch |-> image.ch,
          px |-> BorderPx(image, padding, White)]

---------------------------------------------------------------------------
(* scanner.py: enhance_document *)

\* cvRound of num / den for num >= 0: to the nearest integer, ties to even.
RoundHalfEven(num, den) ==
    LET q == num \div den
        r == num % den
    IN  IF 2 * r > den \/ (2 * r = den /\ q % 2 = 1) THEN q + 1 ELSE q

\* cv2.convertScaleAbs on one channel value: saturate_cast<uchar>(|v*alpha +
\* beta|), with alpha given in hundredths (alpha = alpha100 / 100).
convertScaleAbs(v, alpha100, beta) ==
    Min(RoundHalfEven(Abs(alpha100 * v + 100 * beta), 100), MaxChannel)

\* Lines 98-104 on one channel value v of the equalized image: the remap
\* runs only when an adjustment is asked for.
enhance_value(v, brightness, contrast) ==
    IF brightness # 0 \/ contrast # 0
    THEN convertScaleAbs(v, 100 + contrast, brightness)
    ELSE v

\* enhance_document on a symbolic image: cv2.cvtColor(BGR2LAB) raises unless
\* the image has 3 channels; CLAHE on the lightness channel always runs; the
\* size is kept.
enhance_document(image, brightness, contrast) ==
    IF image.ch # 3 THEN CvError
    ELSE LET enhanced == <<"clahe", image.px>>
         IN  [image EXCEPT !.px =
                IF brightness # 0 \/ contrast # 0
                THEN <<"convertScaleAbs", enhanced, 100 + contrast, brightness>>
                ELSE enhanced]

---------------------------------------------------------------------------
(* SpecTransform: order_points and four_point_transform on bounded inputs *)

GridCoords == {k * GridStep : k \in 0 .. MaxGridK}
GridPoints == GridCoords \X GridCoords
GridQuads == {<<a, b, c, d>> : a \in GridPoints, b \in GridPoints,
                               c \in GridPoints, d \in GridPoints}

\* The quad of the 400x300 scenario.
ScenarioQuad == <<<<50, 40>>, <<350, 30>>, <<360, 270>>, <<40, 280>>>>

\* Lists that do not hold four points.
OddQuads ==
    { <<>>,
      <<<<10, 10>>>>,
      <<<<5>>, <<6>>, <<7>>, <<8>>>>,
      <<<<0, 0>>, <<200, 0>>, <<200, 150>>>>,
      <<<<0, 0>>, <<200, 0>>, <<200, 150>>, <<0, 150>>, <<100, 300>>>> }

\* A decoded 3-channel image, as cv2.imread returns it.
SourceImage(w, h, id) ==
    [kind |-> "symbolic", w |-> w, h |-> h, ch |-> 3, px |-> <<"src", id>>]

Scene == SourceImage(400, 300, "scene")

\* A single-channel array, as a caller of the library may pass.
GrayScene == [kind |-> "symbolic", w |-> 640, h |-> 480, ch |-> 1,
              px |-> <<"src", "gray">>]

ScanIds == 1 .. MaxScanIds

NoArgs ==
    [name |-> "", array |-> None, corners |-> <<>>, enhance |-> FALSE,
     add_border |-> FALSE, save |-> FALSE]

IdleCall ==
    /\ pc = "idle"
    /\ caller = "none"
    /\ args = NoArgs
    /\ decoded = None
    /\ warped = None
    /\ stages = <<>>
    /\ output_path = None
    /\ result = None
    /\ effects = {}

IdleMain ==
    /\ input_files = {}
    /\ output_files = {}
    /\ scanned_images = [id \in ScanIds |-> None]
    /\ clock = 0
    /\ IdleCall

IdleBorder ==
    /\ b_image = None
    /\ b_padding = 0
    /\ b_result = None

IdleEnhance ==
    /\ e_value = 0
    /\ e_brightness = 0
    /\ e_contrast = 0
    /\ e_result = -1

IdleTransform ==
    /\ t_image = None
    /\ t_pts = <<>>
    /\ t_rect = <<>>
    /\ t_rect2 = <<>>
    /\ t_warped = None
    /\ t_bordered = None

InitTransform ==
    /\ t_image \in {Scene, GrayScene}
    /\ t_pts \in GridQuads \cup {ScenarioQuad} \cup OddQuads
    /\ t_rect = <<>>
    /\ t_rect2 = <<>>
    /\ t_warped = None
    /\ t_bordered = None
    /\ IdleBorder
    /\ IdleEnhance
    /\ IdleMain

\* rect = order_points(pts)
OrderPoints ==
    /\ t_rect = <<>>
    /\ ~order_points_raises(t_pts)
    /\ t_rect' = order_points(t_pts)
    /\ UNCHANGED <<t_image, t_pts, t_rect2, t_warped, t_bordered, bvars, evars, mvars>>

\* order_points applied to its own result
ReorderPoints ==
    /\ t_rect # <<>>
    /\ t_rect2 = <<>>
    /\ t_rect2' = order_points(t_rect)
    /\ UNCHANGED <<t_image, t_pts, t_rect, t_warped, t_bordered, bvars, evars, mvars>>

\* warped = four_point_transform(image, pts)
FourPointTransform ==
    /\ t_rect2 # <<>> \/ order_points_raises(t_pts)
    /\ t_warped = None
    /\ t_warped' = four_point_transform(t_image, t_pts)
    /\ UNCHANGED <<t_image, t_pts, t_rect, t_rect2, t_bordered, bvars, evars, mvars>>

\* warped = add_white_border(warped), padding left at its default
AddDefaultBorder ==
    /\ t_warped # None
    /\ ~IsError(t_warped)
    /\ t_bordered = None
    /\ t_bordered' = add_white_border(t_warped, DefaultPadding)
    /\ UNCHANGED <<t_image, t_pts, t_rect, t_rect2, t_warped, bvars, evars, mvars>>

NextTransform ==
    \/ OrderPoints
    \/ ReorderPoints
    \/ FourPointTransform
    \/ AddDefaultBorder

SpecTransform == InitTransform /\ [][NextTransform]_vars

---------------------------------------------------------------------------
(* SpecBorder: add_white_border on raster images *)

Black == <<0, 0, 0>>
Ink == <<30, 60, 90>>
Palette == {Black, Ink, White}

RasterImages ==
    UNION { { [kind |-> "raster", w |-> w, h |-> h, ch |-> 3, px |-> f] :
                f \in [Pixels(w, h) -> Palette] } :
            w \in 1 .. MaxSide, h \in 1 .. MaxSide }

InitBorder ==
    /\ b_image \in RasterImages
    /\ b_padding \in -MaxPadding .. MaxPadding
    /\ b_result = None
    /\ IdleTransform
    /\ IdleEnhance
    /\ IdleMain

\* add_white_border(image, padding)
AddWhiteBorder ==
    /\ b_result = None
    /\ b_result' = add_white_border(b_image, b_padding)
    /\ UNCHANGED <<b_image, b_padding, tvars, evars, mvars>>

NextBorder == AddWhiteBorder

SpecBorder == InitBorder /\ [][NextBorder]_vars

---------------------------------------------------------------------------
(* SpecEnhance: the brightness/contrast remap of enhance_document *)

ChannelValues == {v \in 0 .. MaxChannel : v % ValueStep = 0} \cup {MaxChannel}
Adjustments ==
    {a \in -MaxAdjust .. MaxAdjust : a % AdjustStep = 0} \cup {-MaxAdjust, MaxAdjust}

InitEnhance ==
    /\ e_value \in ChannelValues
    /\ e_brightness \in Adjustments
    /\ e_contrast \in Adjustments
    /\ e_result = -1
    /\ IdleTransform
    /\ IdleBorder
    /\ IdleMain

\* enhance_document(image, brightness, contrast), seen at one channel value
EnhanceDocument ==
    /\ e_result = -1
    /\ e_result' = enhance_value(e_value, e_brightness, e_contrast)
    /\ UNCHANGED <<e_value, e_brightness, e_contrast, tvars, bvars, mvars>>

NextEnhance == EnhanceDocument

SpecEnhance == InitEnhance /\ [][NextEnhance]_vars

---------------------------------------------------------------------------
(* Spec: the handlers of server.py.  One /scan request is in progress at a *)
(* time; the other requests are served by other threads and may run        *)
(* between any two of its steps.  The pipeline steps it goes through are   *)
(* those of the library entry points, which SpecPipeline calls directly.   *)

\* Files an upload can leave in UPLOAD_FOLDER, and what cv2.imread makes of
\* them: a 3-channel image, or None for a file it cannot decode.
GoodFile == "a1b2c3d4.png"
CorruptFile == "e5f6a7b8.jpg"
UploadNames == {GoodFile, CorruptFile}

imread(name) ==
    IF name \in input_files /\ name = GoodFile
    THEN SourceImage(400, 300, name)
    ELSE None

\* The corner lists a call is tried with.
CallQuads ==
    { ScenarioQuad,
      <<<<0, 0>>, <<200, 0>>, <<200, 150>>>>,
      <<<<0, 0>>, <<200, 0>>, <<200, 150>>, <<0, 150>>, <<100, 300>>>>,
      <<<<5>>, <<6>>, <<7>>, <<8>>>>,
      <<>> }

\* OUTPUT_FOLDER / f"scanned_{timestamp}_{filename}"
ScannedPath(timestamp, filename) ==
    [kind |-> "scanned", timestamp |-> timestamp, name |-> filename]

\* OUTPUT_FOLDER / f"document_{timestamp}.pdf"
PdfPath(timestamp) ==
    [kind |-> "document", timestamp |-> timestamp, name |-> "pdf"]

\* The output_path argument of process_document.
LibraryPath == [kind |-> "library", timestamp |-> 0, name |-> "out.jpg"]

Http(status, body) == [status |-> status, body |-> body]

InitMain ==
    /\ IdleMain
    /\ IdleTransform
    /\ IdleBorder
    /\ IdleEnhance

---- (* scan_document, lines 105-127 *)

\* The request is read and validated; a request that passes reads the file.
ScanRequest ==
    /\ pc = "idle"
    /\ \E filename \in UploadNames \cup {""}, corners \in CallQuads,
          enhance \in BOOLEAN, addBorder \in BOOLEAN :
          /\ args' = [name |-> filename, array |-> None, corners |-> corners,
                      enhance |-> enhance, add_border |-> addBorder,
                      save |-> TRUE]
          /\ IF filename = "" \/ Len(corners) = 0
             THEN /\ result' = Http(400, "Missing filename or corners")
                  /\ pc' = "done"
             ELSE IF Len(corners) # 4
             THEN /\ result' = Http(400, "Exactly 4 corners required")
                  /\ pc' = "done"
             ELSE /\ result' = None
                  /\ pc' = "scan_read"
    /\ caller' = "scan_document"
    /\ UNCHANGED <<decoded, warped, stages, output_path, effects, svars,
                   tvars, bvars, evars>>

ScanRead ==
    /\ pc = "scan_read"
    /\ decoded' = imread(args.name)
    /\ IF decoded' = None
       THEN /\ result' = Http(400, "Could not read image")
            /\ pc' = "done"
       ELSE /\ result' = None
            /\ pc' = "transform"
    /\ UNCHANGED <<caller, args, warped, stages, output_path, effects, svars,
                   tvars, bvars, evars>>

---- (* process_document, lines 133-136; process_document_from_array *)

ProcessDocumentCall ==
    /\ pc = "idle"
    /\ \E image_path \in UploadNames, corners \in CallQuads,
          enhance \in BOOLEAN, add_border \in BOOLEAN, save \in BOOLEAN :
          args' = [name |-> image_path, array |-> None, corners |-> corners,
                   enhance |-> enhance, add_border |-> add_border,
                   save |-> save]
    /\ caller' = "process_document"
    /\ pc' = "process_read"
    /\ UNCHANGED <<decoded, warped, stages, output_path, result, effects,
                   svars, tvars, bvars, evars>>

ProcessDocumentRead ==
    /\ pc = "process_read"
    /\ decoded' = imread(args.name)
    /\ IF decoded' = None
       THEN /\ result' = ValueError
            /\ pc' = "done"
       ELSE /\ result' = None
            /\ pc' = "transform"
    /\ UNCHANGED <<caller, args, warped, stages, output_path, effects, svars,
                   tvars, bvars, evars>>

ProcessArrayCall ==
    /\ pc = "idle"
    /\ \E image_array \in {Scene, GrayScene}, corners \in CallQuads,
          enhance \in BOOLEAN, add_border \in BOOLEAN :
          /\ args' = [name |-> "", array |-> image_array, corners |-> corners,
                      enhance |-> enhance, add_border |-> add_border,
                      save |-> FALSE]
          /\ decoded' = image_array
    /\ caller' = "process_document_from_array"
    /\ pc' = "transform"
    /\ UNCHANGED <<warped, stages, output_path, result, effects, svars,
                   tvars, bvars, evars>>

---- (* the pipeline: scanner.py lines 138-147 and 169-178 *)

\* An exception leaves the pipeline: scan_document's except clause answers
\* 500, the library functions let it reach their caller.  warped is dropped.
Raised(e) ==
    IF caller = "scan_document" THEN Http(500, e.error) ELSE e

\* The enhance step that enhances whatever the flag says.
StepEnhanceAlways ==
    /\ pc = "enhance"
    /\ LET r == enhance_document(warped, 0, 0)
       IN  IF IsError(r)
           THEN /\ result' = Raised(r)
                /\ warped' = None
                /\ pc' = "done"
                /\ UNCHANGED stages
           ELSE /\ warped' = r
                /\ stages' = Append(stages, "enhance_document")
                /\ pc' = "border"
                /\ UNCHANGED result
    /\ UNCHANGED <<caller, args, decoded, output_path, effects, svars,
                   tvars, bvars, evars>>

\* warped = four_point_transform(image, corners)
StepTransform ==
    /\ pc = "transform"
    /\ LET r == four_point_transform(decoded, args.corners)
       IN  IF IsError(r)
           THEN /\ result' = Raised(r)
                /\ pc' = "done"
                /\ UNCHANGED <<warped, stages>>
           ELSE /\ warped' = r
                /\ stages' = Append(stages, "four_point_transform")
                /\ pc' = "enhance"
                /\ UNCHANGED result
    /\ UNCHANGED <<caller, args, decoded, output_path, effects, svars,
                   tvars, bvars, evars>>

\* if enhance: warped = enhance_document(warped)
StepEnhance ==
    /\ pc = "enhance"
    /\ IF args.enhance
       THEN LET r == enhance_document(warped, 0, 0)
            IN  IF IsError(r)
                THEN /\ result' = Raised(r)
                     /\ warped' = None
                     /\ pc' = "done"
                     /\ UNCHANGED stages
                ELSE /\ warped' = r
                     /\ stages' = Append(stages, "enhance_document")
                     /\ pc' = "border"
                     /\ UNCHANGED result
       ELSE /\ pc' = "border"
            /\ UNCHANGED <<warped, stages, result>>
    /\ UNCHANGED <<caller, args, decoded, output_path, effects, svars,
                   tvars, bvars, evars>>

\* if add_border: warped = add_white_border(warped)
StepBorder ==
    /\ pc = "border"
    /\ IF args.add_border
       THEN LET r == add_white_border(warped, DefaultPadding)
            IN  IF IsError(r)
                THEN /\ result' = Raised(r)
                     /\ warped' = None
                     /\ pc' = "done"
                     /\ UNCHANGED stages
                ELSE /\ warped' = r
                     /\ stages' = Append(stages, "add_white_border")
                     /\ pc' = "finish"
                     /\ UNCHANGED result
       ELSE /\ pc' = "finish"
            /\ UNCHANGED <<warped, stages, result>>
    /\ UNCHANGED <<caller, args, decoded, output_path, effects, svars,
                   tvars, bvars, evars>>

---- (* after the pipeline *)

\* process_document_from_array: return warped
ProcessArrayReturn ==
    /\ pc = "finish"
    /\ caller = "process_document_from_array"
    /\ result' = warped
    /\ pc' = "done"
    /\ UNCHANGED <<caller, args, decoded, warped, stages, output_path,
                   effects, svars, tvars, bvars, evars>>

\* process_document, lines 149-153: write when output_path is given, return
ProcessDocumentReturn ==
    /\ pc = "finish"
    /\ caller = "process_document"
    /\ IF args.save
       THEN /\ output_files' = output_files \cup {LibraryPath}
            /\ effects' = effects \cup {"file"}
       ELSE UNCHANGED <<output_files, effects>>
    /\ result' = warped
    /\ pc' = "done"
    /\ UNCHANGED <<caller, args, decoded, warped, stages, output_path,
                   input_files, scanned_images, clock, tvars, bvars, evars>>

\* scan_document, lines 138-144: name the output after the second of the
\* clock and the input file, write it
ScanSave ==
    /\ pc = "finish"
    /\ caller = "scan_document"
    /\ output_path' = ScannedPath(clock, args.name)
    /\ output_files' = output_files \cup {output_path'}
    /\ effects' = effects \cup {"file"}
    /\ pc' = "scan_store"
    /\ UNCHANGED <<caller, args, decoded, warped, stages, result,
                   input_files, scanned_images, clock, tvars, bvars, evars>>

\* lines 146-153: scan_id = str(uuid.uuid4())[:8]; scanned_images[scan_id] = ...
ScanStore ==
    /\ pc = "scan_store"
    /\ \E scan_id \in ScanIds :
          scanned_images' =
              [scanned_images EXCEPT ![scan_id] =
                  [path |-> output_path, filename |-> args.name,
                   timestamp |-> output_path.timestamp,
                   input_file |-> args.name]]
    /\ effects' = effects \cup {"registry"}
    /\ pc' = "scan_encode"
    /\ UNCHANGED <<caller, args, decoded, warped, stages, output_path, result,
                   input_files, output_files, clock, tvars, bvars, evars>>

\* lines 155-167: the preview is encoded and the answer built; cv2.imencode
\* raises when the JPEG encoder rejects the image, and the except clause
\* then answers 500.
ScanEncode ==
    /\ pc = "scan_encode"
    /\ \/ result' = Http(200, warped)
       \/ result' = Http(500, CvError.error)
    /\ pc' = "done"
    /\ UNCHANGED <<caller, args, decoded, warped, stages, output_path,
                   effects, svars, tvars, bvars, evars>>

\* The call is over; the next one starts from scratch.
CallEnds ==
    /\ pc = "done"
    /\ pc' = "idle"
    /\ caller' = "none"
    /\ args' = NoArgs
    /\ decoded' = None
    /\ warped' = None
    /\ stages' = <<>>
    /\ output_path' = None
    /\ result' = None
    /\ effects' = {}
    /\ UNCHANGED <<svars, tvars, bvars, evars>>

---- (* the other handlers of server.py *)

\* upload_file: the file is saved before it is decoded, so an undecodable
\* file stays in UPLOAD_FOLDER although the answer is 400.
Upload ==
    /\ \E filename \in UploadNames : input_files' = input_files \cup {filename}
    /\ UNCHANGED <<output_files, scanned_images, clock, cvars, tvars, bvars, evars>>

\* A second passes.
Tick ==
    /\ clock < MaxClock
    /\ clock' = clock + 1
    /\ UNCHANGED <<input_files, output_files, scanned_images, cvars, tvars,
                   bvars, evars>>

\* clear_scanned
ClearScanned ==
    /\ scanned_images' = [id \in ScanIds |-> None]
    /\ UNCHANGED <<input_files, output_files, clock, cvars, tvars, bvars, evars>>

\* reset_session: both folders are emptied, the registry cleared
ResetSession ==
    /\ input_files' = {}
    /\ output_files' = {}
    /\ scanned_images' = [id \in ScanIds |-> None]
    /\ UNCHANGED <<clock, cvars, tvars, bvars, evars>>

\* cleanup_all: as reset_session, but the PDFs are kept
CleanupAll ==
    /\ input_files' = {}
    /\ output_files' = {f \in output_files : f.kind = "document"}
    /\ scanned_images' = [id \in ScanIds |-> None]
    /\ UNCHANGED <<clock, cvars, tvars, bvars, evars>>

\* images_to_pdf: the paths that exist are converted; none existing raises.
images_to_pdf_raises(image_paths) == image_paths \cap output_files = {}

\* create_pdf: the PDF is named after the second of the clock; with cleanup
\* the scanned files, their input files and the registry entries of the
\* requested ids are removed.  An empty scan_ids means every registered id.
CreatePdf ==
    /\ \E requested \in SUBSET ScanIds, cleanup \in BOOLEAN :
          LET scan_ids == IF requested = {}
                          THEN {id \in ScanIds : scanned_images[id] # None}
                          ELSE requested
              found == {id \in scan_ids : scanned_images[id] # None}
              image_paths == {scanned_images[id].path : id \in found}
              input_files_to_cleanup ==
                  {scanned_images[id].input_file : id \in found}
          IN  IF found = {} \/ images_to_pdf_raises(image_paths)
              THEN UNCHANGED <<input_files, output_files, scanned_images>>
              ELSE IF cleanup
              THEN /\ output_files' =
                         (output_files \cup {PdfPath(clock)}) \ image_paths
                   /\ input_files' = input_files \ input_files_to_cleanup
                   /\ scanned_images' =
                         [id \in ScanIds |->
                            IF id \in scan_ids THEN None ELSE scanned_images[id]]
              ELSE /\ output_files' = output_files \cup {PdfPath(clock)}
                   /\ UNCHANGED <<input_files, scanned_images>>
    /\ UNCHANGED <<clock, cvars, tvars, bvars, evars>>

Next ==
    \/ ScanRequest
    \/ ScanRead
    \/ StepTransform
    \/ StepEnhance
    \/ StepBorder
    \/ ScanSave
    \/ ScanStore
    \/ ScanEncode
    \/ CallEnds
    \/ Upload
    \/ Tick
    \/ ClearScanned
    \/ ResetSession
    \/ CleanupAll
    \/ CreatePdf

Spec == InitMain /\ [][Next]_vars

---------------------------------------------------------------------------
(* SpecPipeline: process_document and process_document_from_array called   *)
(* as library functions, on a directory that holds any of the files.       *)

InitPipeline ==
    /\ input_files \in SUBSET UploadNames
    /\ output_files = {}
    /\ scanned_images = [id \in ScanIds |-> None]
    /\ clock = 0
    /\ IdleCall
    /\ IdleTransform
    /\ IdleBorder
    /\ IdleEnhance

NextPipeline ==
    \/ ProcessDocumentCall
    \/ ProcessDocumentRead
    \/ ProcessArrayCall
    \/ StepTransform
    \/ StepEnhance
    \/ StepBorder
    \/ ProcessArrayReturn
    \/ ProcessDocumentReturn
    \/ CallEnds

SpecPipeline == InitPipeline /\ [][NextPipeline]_vars

---------------------------------------------------------------------------
(* Properties of order_points and four_point_transform (SpecTransform) *)

IsImage(r) == r # None /\ ~IsError(r)

\* Four points of two coordinates each.
IsQuad(q) == Len(q) = 4 /\ \A i \in DOMAIN q : Len(q[i]) = 2

PairwiseDistinct(q) == \A i, j \in DOMAIN q : i # j => q[i] # q[j]

AllIdentical(q) == \A i \in DOMAIN q : q[i] = q[1]

\* C1: for every image and every four-point quad, four_point_transform
\* succeeds with an output at least 100 wide and 100 high; for four identical
\* points the output is exactly 100x100.
C1_MinimumOutputSize ==
    (t_warped # None /\ IsQuad(t_pts)) =>
        /\ IsImage(t_warped)
        /\ t_warped.w >= 100
        /\ t_warped.h >= 100
        /\ AllIdentical(t_pts) => (t_warped.w = 100 /\ t_warped.h = 100)

\* C1 witness: four identical points have been rectified to 100x100.
C1_Witness ==
    /\ IsQuad(t_pts)
    /\ AllIdentical(t_pts)
    /\ IsImage(t_warped)
    /\ t_warped.w = 100
    /\ t_warped.h = 100

\* C2: for four pairwise distinct points, order_points applied to its own
\* result returns that result, position by position.
C2_OrderIdempotent ==
    (t_rect2 # <<>> /\ IsQuad(t_pts) /\ PairwiseDistinct(t_pts)) =>
        t_rect2 = t_rect

\* C3: for four pairwise distinct points, the rows of order_points' result
\* are a permutation of the input points.
C3_OrderIsPermutation ==
    (t_rect # <<>> /\ IsQuad(t_pts) /\ PairwiseDistinct(t_pts)) =>
        /\ {t_rect[i] : i \in 1 .. 4} = {t_pts[i] : i \in 1 .. 4}
        /\ PairwiseDistinct(t_rect)

\* C4: the output width is max(100, trunc(max(|BR-BL|, |TR-TL|))) and the
\* height max(100, trunc(max(|TR-BR|, |TL-BL|))) over the ordered corners;
\* the scenario quad is ordered as given, rectified to 320x240 and bordered
\* to 360x280.
C4_OutputDimensions ==
    /\ (IsImage(t_warped) /\ t_rect # <<>>) =>
          /\ t_warped.w =
                Max(100, Isqrt(Max(SqDist(t_rect[3], t_rect[4]),
                                   SqDist(t_rect[2], t_rect[1]))))
          /\ t_warped.h =
                Max(100, Isqrt(Max(SqDist(t_rect[2], t_rect[3]),
                                   SqDist(t_rect[1], t_rect[4]))))
    /\ (t_pts = ScenarioQuad /\ t_rect # <<>>) =>
          t_rect = <<<<50, 40>>, <<350, 30>>, <<360, 270>>, <<40, 280>>>>
    /\ (t_pts = ScenarioQuad /\ t_warped # None) =>
          IsImage(t_warped) /\ t_warped.w = 320 /\ t_warped.h = 240
    /\ (t_pts = ScenarioQuad /\ t_bordered # None) =>
          IsImage(t_bordered) /\ t_bordered.w = 360 /\ t_bordered.h = 280

\* C4 witness: the scenario quad has gone through rectification and border,
\* and so has a quad large enough to escape the 100-pixel floor on a grid.
C4_Witness ==
    /\ t_pts = ScenarioQuad
    /\ IsImage(t_bordered)
    /\ t_bordered.w = 360
    /\ t_warped.w = 320

---------------------------------------------------------------------------
(* Properties of enhance_document (SpecEnhance) *)

Clamp(x, lo, hi) == Max(lo, Min(x, hi))

\* C6: with a brightness or contrast adjustment, every channel value v maps
\* to clamp(alpha*v + beta, 0, 255), beta = brightness, alpha = 1 +
\* contrast/100 (up to the rounding to an 8-bit value), so a negative
\* alpha*v + beta maps to 0; with both 0 the value is not remapped.
C6_AffineRemapClamped ==
    e_result # -1 =>
        LET num == (100 + e_contrast) * e_value + 100 * e_brightness
        IN  IF e_brightness # 0 \/ e_contrast # 0
            THEN /\ Abs(100 * e_result - Clamp(num, 0, 25500)) <= 50
                 /\ num < 0 => e_result = 0
            ELSE e_result = e_value

---------------------------------------------------------------------------
(* Properties of add_white_border (SpecBorder) *)

\* C8: a negative padding makes add_white_border fail and return no image.
C8_NegativePaddingFails ==
    (b_result # None /\ b_padding < 0) => b_result = CvError

\* C8 witness: add_white_border was called with padding -1 and raised.
C8_Witness ==
    /\ b_padding = -1
    /\ b_result = CvError

\* C9: for padding p >= 0 the result is (W+2p) x (H+2p), holds the original
\* pixels unchanged at offset (p, p) and white everywhere else; with p = 0 it
\* has the size and the content of the input.
C9_BorderGeometry ==
    (b_result # None /\ b_padding >= 0) =>
        /\ IsImage(b_result)
        /\ b_result.w = b_image.w + 2 * b_padding
        /\ b_result.h = b_image.h + 2 * b_padding
        /\ DOMAIN b_result.px = Pixels(b_result.w, b_result.h)
        /\ \A x \in 0 .. b_image.w - 1, y \in 0 .. b_image.h - 1 :
              b_result.px[<<x + b_padding, y + b_padding>>] = b_image.px[<<x, y>>]
        /\ \A q \in DOMAIN b_result.px :
              (\/ q[1] < b_padding \/ q[1] >= b_padding + b_image.w
               \/ q[2] < b_padding \/ q[2] >= b_padding + b_image.h)
              => b_result.px[q] = <<255, 255, 255>>
        /\ b_padding = 0 =>
              (b_result.w = b_image.w /\ b_result.h = b_image.h
               /\ b_result.px = b_image.px)

\* C9 witness: an image with a non-white pixel has been given a border of
\* positive width.
C9_Witness ==
    /\ IsImage(b_result)
    /\ b_padding > 0
    /\ \E q \in DOMAIN b_image.px : b_image.px[q] # <<255, 255, 255>>
    /\ b_result.w = b_image.w + 2 * b_padding

---------------------------------------------------------------------------
(* Properties of the pipeline and of scan_document (Spec) *)

IsPrefix(s, t) == Len(s) <= Len(t) /\ \A i \in 1 .. Len(s) : s[i] = t[i]

\* The stages a call with these flags is to run, in order.
ExpectedStages(a) ==
    <<"four_point_transform">>
        \o (IF a.enhance THEN <<"enhance_document">> ELSE <<>>)
        \o (IF a.add_border THEN <<"add_white_border">> ELSE <<>>)

\* The image the fixed order produces: four_point_transform, then
\* enhance_document on its output if asked, then add_white_border on that.
ExpectedImage(src, a) ==
    LET rectified == four_point_transform(src, a.corners)
        enhanced == IF a.enhance THEN enhance_document(rectified, 0, 0)
                                 ELSE rectified
    IN  IF a.add_border THEN add_white_border(enhanced, 20) ELSE enhanced

\* The call failed: it raised, or scan_document answered with an error.
Failed(r) ==
    IF caller = "scan_document" THEN r.status # 200 ELSE IsError(r)

\* C5: the stages of a call run in the order four_point_transform,
\* enhance_document (exactly when enhance), add_white_border (exactly when
\* add_border), each on the output of the one before; a stage that raises
\* ends the call.  With both flags off the result is four_point_transform's
\* output.
C5_StageOrder ==
    /\ caller # "none" => IsPrefix(stages, ExpectedStages(args))
    /\ pc \in {"finish", "scan_store", "scan_encode"} =>
          /\ stages = ExpectedStages(args)
          /\ warped = ExpectedImage(decoded, args)
    /\ (pc = "done" /\ caller # "scan_document" /\ ~Failed(result)) =>
          /\ stages = ExpectedStages(args)
          /\ result = ExpectedImage(decoded, args)
          /\ (~args.enhance /\ ~args.add_border) =>
                result = four_point_transform(decoded, args.corners)
    /\ (pc = "done" /\ caller = "scan_document" /\ ~Failed(result)) =>
          /\ stages = ExpectedStages(args)
          /\ result.body = ExpectedImage(decoded, args)

\* C5 witness: process_document_from_array returned after all three stages.
C5_Witness ==
    /\ pc = "done"
    /\ caller = "process_document_from_array"
    /\ IsImage(result)
    /\ stages = <<"four_point_transform", "enhance_document", "add_white_border">>

\* C7: a quad that does not hold exactly four points is never ordered,
\* measured or warped, and its call fails without an image.
C7_QuadCardinalityChecked ==
    (caller # "none" /\ Len(args.corners) # 4) =>
        /\ stages = <<>>
        /\ warped = None
        /\ pc = "done" => Failed(result)

\* C10: a call that ends in an error has written no output file and no
\* registry entry.
C10_NoPartialResult ==
    (pc = "done" /\ Failed(result)) => effects = {}

\* The scan ids that have an entry in the registry.
Registered == {id \in ScanIds : scanned_images[id] # None}

\* C11: between requests, every entry of scanned_images refers to an output
\* file that exists, and no two entries refer to the same output path.
C11_RegistryRefersToFiles ==
    pc = "idle" =>
        \A id \in Registered :
            /\ scanned_images[id].path \in output_files
            /\ \A other \in Registered \ {id} :
                   scanned_images[other].path # scanned_images[id].path

===========================================================================
